---- MODULE Spec2Model ----
(***************************************************************************)
(* Model of src/src/app/api/chat/route.ts: the POST handler of the chat    *)
(* endpoint.  Each request runs the handler as a sequence of atomic        *)
(* segments separated by its suspension points (awaits): the system prompt *)
(* generation, the model call, the backoff wait and the search tool call.  *)
(* The session store (global.chatHistoryMap) is shared by all requests and *)
(* holds references to arrays, so the arrays live in a heap.               *)
(***************************************************************************)
EXTENDS Integers, Sequences, FiniteSets, TLC

\* ------------------------------------------------------------------ bounds
MaxFaults == 2        \* failed model calls injected while requests run concurrently
MaxTools == 1         \* tool rounds served while requests run concurrently
MaxCalls == 30        \* generateContent invocations served while they are counted

\* ------------------------------------------------------- program constants
maxToolCallsShort == 5 - 1       \* variant: one round too few
maxToolCallsLong == 5 + 1        \* variant: one round too many
maxToolCalls == 5
maxRetriesLong == 5 + 1          \* variant: one attempt too many
maxRetries == 5
baseDelay == 2000
safetyMargin == 500

\* ---------------------------------------------------------------- domains
Requests == {1, 2}
Sessions == {"s1", "s2"}
Unlimited == 0 - 1
NoArray == 0 - 1
PriorArray == 0
Arrays == {PriorArray} \cup Requests

AI_NICKNAME == "CAT"
FallbackReply == "gomen " \o AI_NICKNAME
SearchError == "search error"
NotFound == "no results"
Snippet == "web results"
Threw == "threw"

Message(role, content) == [role |-> role, content |-> content]
PriorHistory == << Message("user", "u0"), Message("assistant", "a0") >>
\* the last element of the request's messages (line 100)
CurrentMessage(r) == Message("user", IF r = 1 THEN "u1" ELSE "u2")

\* A model response as the handler reads it: functionCalls[0] (name, query),
\* candidates[0].content and text.  functionCalls is read out of
\* candidates[0].content.parts, so a response with a call has content.  A call
\* carries its args object; text is absent (undefined) when no part has text.
NoCall == "none"
NoText == "undefined"
ToolNames == {"googleSearch", "lookupWeather"}
Queries == {"q1"}
Texts == {"t1", NoText}
Responses ==
    { [call |-> c, query |-> q, hasContent |-> h, text |-> t] :
        c \in ToolNames \cup {NoCall}, q \in Queries, h \in BOOLEAN, t \in Texts }
ModelResponses == { x \in Responses : IF x.call = NoCall THEN ~x.hasContent ELSE x.hasContent }
NoResponse == [call |-> NoCall, query |-> "q1", hasContent |-> FALSE, text |-> "unset"]

\* A failure as the handler reads it: whether it is an Error, the number
\* after the first  code":  in its message (0 when there is none), whether
\* the message includes  code":503 , whether it includes  API_KEY , and
\* the digits after "retry in" (whole seconds, tenths; -1 when absent).
Err(isErr, code, inc503, apiKey, secs, tenths) ==
    [isError |-> isErr, code |-> code, has503 |-> inc503, hasApiKey |-> apiKey,
     adviceSecs |-> secs, adviceTenths |-> tenths]
NoError == Err(FALSE, 0 - 1, FALSE, FALSE, 0 - 1, 0)
E503 == Err(TRUE, 503, TRUE, FALSE, 0 - 1, 0)
E429 == Err(TRUE, 429, FALSE, FALSE, 0 - 1, 0)
E429Advised == Err(TRUE, 429, FALSE, FALSE, 2, 5)
E429Nested503 == Err(TRUE, 429, TRUE, FALSE, 0 - 1, 0)
E400 == Err(TRUE, 400, FALSE, FALSE, 0 - 1, 0)
EApiKey == Err(TRUE, 0, FALSE, TRUE, 0 - 1, 0)
EApiKeyInvalid == Err(TRUE, 400, FALSE, TRUE, 0 - 1, 0)
EOther == Err(TRUE, 500, FALSE, FALSE, 0 - 1, 0)
ENotError == Err(FALSE, 503, TRUE, FALSE, 0 - 1, 0)
ModelErrors ==
    {E503, E429, E429Advised, E429Nested503, E400, EApiKey, EApiKeyInvalid, EOther, ENotError}

\* `Unknown function call: ${functionName}` (line 232)
UnknownFunctionError(name) == Err(TRUE, 0, FALSE, FALSE, 0 - 1, 0)

SearchOutcomes == {"items", "empty", "failure"}

Last(s) == s[Len(s)]
IsPrefix(s, t) == Len(s) <= Len(t) /\ SubSeq(t, 1, Len(s)) = s

VARIABLES
    apiKey,          \* process.env.GEMINI_API_KEY is set
    chatHistoryMap,  \* global.chatHistoryMap: session id -> array reference
    heap,            \* array reference -> the array's elements
    pc,              \* where each request is suspended
    sessionId,       \* the request's sessionId
    chatHistory,     \* the request's chatHistory reference
    contents,        \* the request's working conversation
    contentsLength,
    i,               \* tool-calling loop counter
    attempt,         \* retry loop counter
    currentDelay,
    error,           \* the failure caught in the retry loop, while waiting
    response,        \* this round's response
    fullResponse,
    result,          \* the NextResponse returned
    waits,           \* delays awaited in the current retry loop
    errs,            \* failures caught in the current retry loop
    thrown,          \* the error that reached the outer catch
    rounds,          \* successful model calls of the request
    toolCalls,       \* googleSearch invocations of the request
    original,        \* contents as built from the chat history
    attempts,        \* generateContent invocations of the current retry loop
    appended,        \* the turns the request pushed onto its chatHistory
    lastOutcome,     \* how the request's latest search call ended
    faultsLeft,      \* environment budgets
    toolsLeft,
    callsLeft,
    faultKinds,
    admitted         \* the (request, session id) pairs the environment may send

vars == << apiKey, chatHistoryMap, heap, pc, sessionId, chatHistory, contents,
           contentsLength, i, attempt, currentDelay, error, response, fullResponse,
           result, waits, errs, thrown, rounds, toolCalls, original, attempts,
           appended, lastOutcome, faultsLeft, toolsLeft, callsLeft, faultKinds, admitted >>

storeVars == << chatHistoryMap, heap >>
envVars == << apiKey, faultsLeft, toolsLeft, callsLeft, faultKinds, admitted >>

NoResult == [status |-> 0, body |-> "pending"]
Spend(budget) == IF budget = Unlimited THEN Unlimited ELSE budget - 1

\* ------------------------------------------------------- pure helpers

\* lines 108-114
toContents(history) ==
    [ k \in 1 .. Len(history) |->
        [role |-> IF history[k].role = "user" THEN "user" ELSE "model",
         part |-> << "text", history[k].content >>] ]

\* lines 172-173 and 252-253
statusCode(e) == IF e.code >= 0 THEN e.code ELSE 0

\* variant: every Error is retried
shouldRetryAny(e) == e.isError
\* lines 168-184
shouldRetry(e) == e.isError /\ (statusCode(e) = 503 \/ statusCode(e) = 429)

\* parseFloat(match[1]) * 1000, for a match of \d+(\.\d+)? with one decimal
parseFloatMs(e) == e.adviceSecs * 1000 + e.adviceTenths * 100

\* lines 169-181
retryDelayMs(e, cur) ==
    IF e.isError /\ statusCode(e) = 429 /\ e.adviceSecs >= 0
    THEN parseFloatMs(e) + safetyMargin
    ELSE cur

\* variant: gives up after the first retry
retriesOnce(e, att) == shouldRetry(e) /\ att < 1
\* line 186
retries(e, att) == shouldRetry(e) /\ att < maxRetries - 1

\* variant: the backoff never grows
nextDelayFlat(e, cur) == cur
\* variant: the backoff is declared outside the tool-calling loop
startDelayKept(cur) == cur
\* line 135: let currentDelay = 2000, whatever it was in the round before
startDelay(cur) == baseDelay

\* lines 189-191
nextDelay(e, cur) == IF e.has503 THEN cur * 2 ELSE cur

\* variant: no fallback for a response without text
replyNoFallback(resp) == resp.text
\* line 238
reply(resp) == IF resp = NoResponse \/ resp.text = NoText THEN FallbackReply ELSE resp.text

\* variant: any tool name is dispatched to the search
isKnownToolAny(name) == TRUE
\* line 210
isKnownTool(name) == name = "googleSearch"

\* variant: the 400 test comes before the API_KEY test
errorStatusBadOrder(e) ==
    IF ~e.isError THEN 500
    ELSE IF statusCode(e) = 503 THEN 503
    ELSE IF statusCode(e) = 429 THEN 429
    ELSE IF statusCode(e) = 400 THEN 400
    ELSE IF e.hasApiKey THEN 401
    ELSE 500
\* lines 248-270
errorStatus(e) ==
    IF ~e.isError THEN 500
    ELSE IF statusCode(e) = 503 THEN 503
    ELSE IF statusCode(e) = 429 THEN 429
    ELSE IF e.hasApiKey THEN 401
    ELSE IF statusCode(e) = 400 THEN 400
    ELSE 500

\* variant: the search failure escapes googleSearch
googleSearchRethrows(outcome) ==
    IF outcome = "failure" THEN Threw
    ELSE IF outcome = "empty" THEN NotFound
    ELSE Snippet
\* lines 45-82: the payload (toolResult.result) for each outcome of the search call
googleSearch(outcome) ==
    IF outcome = "failure" THEN SearchError
    ELSE IF outcome = "empty" THEN NotFound
    ELSE Snippet

\* variant: the result turn is pushed before the invocation turn
toolTurnsSwapped(resp, payload) ==
    << [role |-> "function", part |-> << "functionResponse", "googleSearch", payload >>],
       [role |-> "model", part |-> << "functionCall", resp.call, resp.query >>] >>
\* variant: only the result turn is pushed
toolTurnsResultOnly(resp, payload) ==
    << [role |-> "function", part |-> << "functionResponse", "googleSearch", payload >>] >>
\* lines 216-227
toolTurns(resp, payload) ==
    << [role |-> "model", part |-> << "functionCall", resp.call, resp.query >>],
       [role |-> "function", part |-> << "functionResponse", "googleSearch", payload >>] >>

\* variant: the key test never fires
keyMissingNever(key) == FALSE
\* line 89: !apiKey
keyMissing(key) == ~key

\* line 127-131: does the turn-count guard leave the loop?
guardBreaks(len, recorded, iter) == ~(len > recorded) /\ iter > 0

\* variant: every request starts from a fresh array
historyRefFresh(sid, r) == r
\* line 97: global.chatHistoryMap.get(sessionId) || []  (a fresh array is the request's own)
historyRef(sid, r) == IF chatHistoryMap[sid] = NoArray THEN r ELSE chatHistoryMap[sid]

\* the turn sequence stored for a session
Stored(s) == IF chatHistoryMap[s] = NoArray THEN << >> ELSE heap[chatHistoryMap[s]]

\* ------------------------------------------------------- handler segments

\* variant: the stored turn holds the raw response text, not the reply
FinishStoresRaw(r, resp) ==
    /\ heap' = [heap EXCEPT ![chatHistory[r]] = Append(@, Message("assistant", resp.text))]
    /\ appended' = [appended EXCEPT ![r] = Append(@, Message("assistant", resp.text))]
    /\ chatHistoryMap' = [chatHistoryMap EXCEPT ![sessionId[r]] = chatHistory[r]]
    /\ result' = [result EXCEPT ![r] = [status |-> 200, body |-> reply(resp)]]
    /\ pc' = [pc EXCEPT ![r] = "done"]
    /\ thrown' = thrown
\* lines 237-244: success exit
Finish(r, resp) ==
    /\ heap' = [heap EXCEPT ![chatHistory[r]] = Append(@, Message("assistant", reply(resp)))]
    /\ appended' = [appended EXCEPT ![r] = Append(@, Message("assistant", reply(resp)))]
    /\ chatHistoryMap' = [chatHistoryMap EXCEPT ![sessionId[r]] = chatHistory[r]]
    /\ result' = [result EXCEPT ![r] = [status |-> 200, body |-> reply(resp)]]
    /\ pc' = [pc EXCEPT ![r] = "done"]
    /\ thrown' = thrown

\* variant: the catch takes the request's user turn back out of the store
FailRollsBack(r, e) ==
    /\ result' = [result EXCEPT ![r] = [status |-> errorStatus(e), body |-> "error"]]
    /\ pc' = [pc EXCEPT ![r] = "done"]
    /\ thrown' = [thrown EXCEPT ![r] = e]
    /\ heap' = [heap EXCEPT ![chatHistory[r]] = SubSeq(@, 1, Len(@) - 1)]
    /\ UNCHANGED << chatHistoryMap, appended >>
\* lines 245-273: the outer catch
Fail(r, e) ==
    /\ result' = [result EXCEPT ![r] = [status |-> errorStatus(e), body |-> "error"]]
    /\ pc' = [pc EXCEPT ![r] = "done"]
    /\ thrown' = [thrown EXCEPT ![r] = e]
    /\ UNCHANGED << storeVars, appended >>

\* lines 85-105: the request arrives; runs up to await generateSystemPrompt()
Receive(r, sid) ==
    /\ pc[r] = "idle"
    /\ << r, sid >> \in admitted
    /\ sessionId' = [sessionId EXCEPT ![r] = sid]
    /\ IF keyMissing(apiKey)
       THEN /\ result' = [result EXCEPT ![r] = [status |-> 500, body |-> "error"]]
            /\ pc' = [pc EXCEPT ![r] = "done"]
            /\ UNCHANGED << storeVars, chatHistory, appended >>
       ELSE LET ref == historyRef(sid, r)
                old == IF ref = chatHistoryMap[sid] THEN heap[ref] ELSE << >>
            IN  /\ chatHistory' = [chatHistory EXCEPT ![r] = ref]
                /\ heap' = [heap EXCEPT ![ref] = Append(old, CurrentMessage(r))]
                /\ appended' = [appended EXCEPT ![r] = << CurrentMessage(r) >>]
                /\ chatHistoryMap' = [chatHistoryMap EXCEPT ![sid] = ref]
                /\ pc' = [pc EXCEPT ![r] = "prompt"]
                /\ result' = result
    /\ UNCHANGED << envVars, contents, contentsLength, i, attempt, currentDelay, error,
                    response, fullResponse, waits, errs, thrown, rounds, toolCalls, original,
                    attempts, lastOutcome >>

\* lines 105-123: generateSystemPrompt() resolved; contents built, loop about to start
PromptReady(r) ==
    /\ pc[r] = "prompt"
    /\ contents' = [contents EXCEPT ![r] = toContents(heap[chatHistory[r]])]
    /\ original' = [original EXCEPT ![r] = toContents(heap[chatHistory[r]])]
    /\ contentsLength' = [contentsLength EXCEPT ![r] = Len(heap[chatHistory[r]])]
    /\ i' = [i EXCEPT ![r] = 0]
    /\ pc' = [pc EXCEPT ![r] = "loop"]
    /\ UNCHANGED << envVars, storeVars, sessionId, chatHistory, attempt, currentDelay, error,
                    response, fullResponse, result, waits, errs, thrown, rounds, toolCalls,
                    attempts, appended, lastOutcome >>

\* lines 125-141: loop test, turn-count guard, retry state, first attempt issued
LoopHead(r) ==
    /\ pc[r] = "loop"
    /\ IF i[r] < maxToolCalls /\ ~guardBreaks(Len(contents[r]), contentsLength[r], i[r])
       THEN /\ callsLeft # 0
            /\ callsLeft' = Spend(callsLeft)
            /\ contentsLength' = [contentsLength EXCEPT ![r] = Len(contents[r])]
            /\ attempt' = [attempt EXCEPT ![r] = 0]
            /\ currentDelay' = [currentDelay EXCEPT ![r] = startDelay(@)]
            /\ response' = [response EXCEPT ![r] = NoResponse]
            /\ waits' = [waits EXCEPT ![r] = << >>]
            /\ errs' = [errs EXCEPT ![r] = << >>]
            /\ attempts' = [attempts EXCEPT ![r] = 1]
            /\ pc' = [pc EXCEPT ![r] = "model"]
            /\ UNCHANGED << storeVars, result, thrown, appended >>
       ELSE /\ Finish(r, fullResponse[r])
            /\ UNCHANGED << contentsLength, attempt, currentDelay, response, waits, errs,
                            attempts, callsLeft >>
    /\ UNCHANGED << apiKey, faultsLeft, toolsLeft, faultKinds, admitted, sessionId,
                    chatHistory, contents, i, error, fullResponse, rounds, toolCalls,
                    original, lastOutcome >>

\* lines 141-166, 198-233: generateContent resolved
ModelReturns(r, resp) ==
    /\ pc[r] = "model"
    /\ resp.call # NoCall => toolsLeft # 0
    /\ response' = [response EXCEPT ![r] = resp]
    /\ fullResponse' = [fullResponse EXCEPT ![r] = resp]
    /\ rounds' = [rounds EXCEPT ![r] = @ + 1]
    /\ IF resp.call = NoCall
       THEN /\ Finish(r, resp)
            /\ UNCHANGED << toolCalls, toolsLeft >>
       ELSE IF isKnownTool(resp.call)
       THEN /\ pc' = [pc EXCEPT ![r] = "tool"]
            /\ toolCalls' = [toolCalls EXCEPT ![r] = @ + 1]
            /\ toolsLeft' = Spend(toolsLeft)
            /\ UNCHANGED << storeVars, result, thrown, appended >>
       ELSE /\ Fail(r, UnknownFunctionError(resp.call))
            /\ UNCHANGED << toolCalls, toolsLeft >>
    /\ UNCHANGED << apiKey, faultsLeft, callsLeft, faultKinds, admitted, sessionId, chatHistory,
                    contents,
                    contentsLength, i, attempt, currentDelay, error, waits, errs, original,
                    attempts, lastOutcome >>

\* lines 167-195: generateContent rejected
ModelFails(r, e) ==
    /\ pc[r] = "model"
    /\ faultsLeft # 0
    /\ e \in faultKinds
    /\ faultsLeft' = Spend(faultsLeft)
    /\ errs' = [errs EXCEPT ![r] = Append(@, e)]
    /\ IF retries(e, attempt[r])
       THEN /\ error' = [error EXCEPT ![r] = e]
            /\ waits' = [waits EXCEPT ![r] = Append(@, retryDelayMs(e, currentDelay[r]))]
            /\ pc' = [pc EXCEPT ![r] = "delay"]
            /\ UNCHANGED << storeVars, result, thrown, appended >>
       ELSE /\ Fail(r, e)
            /\ UNCHANGED << error, waits >>
    /\ UNCHANGED << apiKey, toolsLeft, callsLeft, faultKinds, admitted, sessionId, chatHistory,
                    contents,
                    contentsLength, i, attempt, currentDelay, response, fullResponse,
                    rounds, toolCalls, original, attempts, lastOutcome >>

\* lines 188-191, 138, 141, 198-204: the backoff wait is over; the retry loop
\* goes round, and issues the next attempt while attempt < maxRetries
DelayElapsed(r) ==
    /\ pc[r] = "delay"
    /\ currentDelay' = [currentDelay EXCEPT ![r] = nextDelay(error[r], @)]
    /\ attempt' = [attempt EXCEPT ![r] = @ + 1]
    /\ error' = [error EXCEPT ![r] = NoError]
    /\ IF attempt[r] + 1 < maxRetries
       THEN /\ callsLeft # 0
            /\ callsLeft' = Spend(callsLeft)
            /\ attempts' = [attempts EXCEPT ![r] = @ + 1]
            /\ pc' = [pc EXCEPT ![r] = "model"]
            /\ UNCHANGED << storeVars, result, thrown, appended, fullResponse >>
       ELSE /\ fullResponse' = [fullResponse EXCEPT ![r] = NoResponse]
            /\ Finish(r, NoResponse)
            /\ UNCHANGED << attempts, callsLeft >>
    /\ UNCHANGED << apiKey, faultsLeft, toolsLeft, faultKinds, admitted, sessionId, chatHistory, contents, contentsLength, i,
                    response, waits, errs, rounds, toolCalls, original, lastOutcome >>

\* lines 211-230: googleSearch resolved
ToolReturns(r, outcome) ==
    /\ pc[r] = "tool"
    /\ lastOutcome' = [lastOutcome EXCEPT ![r] = outcome]
    /\ LET payload == googleSearch(outcome)
       IN  IF payload = Threw
           THEN /\ Fail(r, EOther)
                /\ UNCHANGED << contents, i >>
           ELSE IF response[r].hasContent
           THEN /\ contents' = [contents EXCEPT ![r] = @ \o toolTurns(response[r], payload)]
                /\ i' = [i EXCEPT ![r] = @ + 1]
                /\ pc' = [pc EXCEPT ![r] = "loop"]
                /\ UNCHANGED << storeVars, result, thrown, appended >>
           ELSE /\ Finish(r, fullResponse[r])
                /\ UNCHANGED << contents, i >>
    /\ UNCHANGED << envVars, sessionId, chatHistory, contentsLength, attempt, currentDelay,
                    error, response, fullResponse, waits, errs, rounds, toolCalls, original,
                    attempts >>

Next ==
    \/ \E r \in Requests, sid \in Sessions : Receive(r, sid)
    \/ \E r \in Requests : PromptReady(r)
    \/ \E r \in Requests : LoopHead(r)
    \/ \E r \in Requests, resp \in ModelResponses : ModelReturns(r, resp)
    \/ \E r \in Requests, e \in ModelErrors : ModelFails(r, e)
    \/ \E r \in Requests : DelayElapsed(r)
    \/ \E r \in Requests, outcome \in SearchOutcomes : ToolReturns(r, outcome)

InitRequests ==
    /\ chatHistoryMap = [s \in Sessions |-> IF s = "s1" THEN PriorArray ELSE NoArray]
    /\ heap = [a \in Arrays |-> IF a = PriorArray THEN PriorHistory ELSE << >>]
    /\ pc = [r \in Requests |-> "idle"]
    /\ sessionId = [r \in Requests |-> "s1"]
    /\ chatHistory = [r \in Requests |-> NoArray]
    /\ contents = [r \in Requests |-> << >>]
    /\ contentsLength = [r \in Requests |-> 0]
    /\ i = [r \in Requests |-> 0]
    /\ attempt = [r \in Requests |-> 0]
    /\ currentDelay = [r \in Requests |-> baseDelay]
    /\ error = [r \in Requests |-> NoError]
    /\ response = [r \in Requests |-> NoResponse]
    /\ fullResponse = [r \in Requests |-> NoResponse]
    /\ result = [r \in Requests |-> NoResult]
    /\ waits = [r \in Requests |-> << >>]
    /\ errs = [r \in Requests |-> << >>]
    /\ thrown = [r \in Requests |-> NoError]
    /\ rounds = [r \in Requests |-> 0]
    /\ toolCalls = [r \in Requests |-> 0]
    /\ original = [r \in Requests |-> << >>]
    /\ attempts = [r \in Requests |-> 0]
    /\ appended = [r \in Requests |-> << >>]
    /\ lastOutcome = [r \in Requests |-> "none"]

\* Concurrent requests, with a bounded number of upstream faults and tool rounds.
Init ==
    /\ InitRequests
    /\ apiKey \in BOOLEAN
    /\ faultsLeft = MaxFaults
    /\ toolsLeft = MaxTools
    /\ callsLeft = Unlimited
    /\ faultKinds = {E503, EOther}
    /\ admitted = Requests \X Sessions

\* One request, with the upstream free to fail and to request tools at will.
InitSolo ==
    /\ InitRequests
    /\ apiKey \in BOOLEAN
    /\ faultsLeft = Unlimited
    /\ toolsLeft = Unlimited
    /\ callsLeft = Unlimited
    /\ faultKinds = ModelErrors
    /\ admitted = {<< 1, "s1" >>}

\* One request whose generateContent invocations are counted, with one
\* retryable and one terminal kind of upstream failure.
InitCounted ==
    /\ InitRequests
    /\ apiKey \in BOOLEAN
    /\ faultsLeft = Unlimited
    /\ toolsLeft = Unlimited
    /\ callsLeft = MaxCalls
    /\ faultKinds = {E503, EOther}
    /\ admitted = {<< 1, "s1" >>}

\* the continuations of a request: each runs once the awaited call has settled
Run(r) ==
    \/ PromptReady(r)
    \/ LoopHead(r)
    \/ \E resp \in ModelResponses : ModelReturns(r, resp)
    \/ \E e \in ModelErrors : ModelFails(r, e)
    \/ DelayElapsed(r)
    \/ \E outcome \in SearchOutcomes : ToolReturns(r, outcome)

Spec == Init /\ [][Next]_vars
SpecSolo == InitSolo /\ [][Next]_vars
\* every awaited model call, tool call and backoff wait eventually settles
SpecCounted == InitCounted /\ [][Next]_vars /\ \A r \in Requests : WF_vars(Run(r))

TypeOK ==
    /\ \A r \in Requests : pc[r] \in {"idle", "prompt", "loop", "model", "delay", "tool", "done"}
    /\ \A r \in Requests : attempt[r] \in 0 .. maxRetries - 1
    /\ \A r \in Requests : i[r] \in 0 .. maxToolCalls

\* ------------------------------------------------------------ properties

RECURSIVE Pow2(_)
Pow2(n) == IF n <= 0 THEN 1 ELSE 2 * Pow2(n - 1)

Is503(e) == e.isError /\ e.code = 503
Is429(e) == e.isError /\ e.code = 429
Retryable(e) == Is503(e) \/ Is429(e)

RECURSIVE Count503(_)
Count503(es) == IF es = << >> THEN 0
                ELSE (IF Is503(es[1]) THEN 1 ELSE 0) + Count503(Tail(es))

\* the text a response carries, or the fixed apology when it carries none
TextOrFallback(resp) == IF resp.text = NoText THEN FallbackReply ELSE resp.text

\* the request ran its loop with every model call answered by a googleSearch request
AlwaysSearched(r) ==
    pc[r] = "done" /\ response[r] # NoResponse /\ toolCalls[r] = rounds[r]

\* C1 as claimed: with every successful model call answered by a googleSearch
\* request, the run ends after exactly 5 rounds with a success response that
\* carries the text of the last response, and not with an error response.
C1_ExhaustionReturnsLastText ==
    \A r \in Requests : AlwaysSearched(r) =>
        /\ rounds[r] = 5
        /\ result[r].status = 200
        /\ result[r].body = fullResponse[r].text

\* C1 amended: as above, but the message is the last response's text when it
\* has one and the fixed fallback message when it has none.
C1_ExhaustionReturnsLastTextOrFallback ==
    \A r \in Requests : AlwaysSearched(r) =>
        /\ rounds[r] = 5
        /\ i[r] = 5
        /\ result[r].status = 200
        /\ result[r].body = TextOrFallback(fullResponse[r])

C1_Witness ==
    \E r \in Requests : AlwaysSearched(r) /\ rounds[r] = 5 /\ result[r].status = 200
                        /\ fullResponse[r].text = "t1" /\ Len(errs[r]) = 2

\* the latest response of the request carries no tool call
Converged(r) == fullResponse[r] # NoResponse /\ fullResponse[r].call = NoCall

\* C2 as claimed: a response without a tool call ends the loop in that round,
\* with no tool invocation and no further model call (one round when it is the
\* first response), and the returned text equals the response's text.
C2_NoCallReturnsText ==
    \A r \in Requests : Converged(r) =>
        /\ pc[r] = "done"
        /\ toolCalls[r] = rounds[r] - 1
        /\ (toolCalls[r] = 0 => rounds[r] = 1 /\ i[r] = 0)
        /\ result[r].status = 200
        /\ result[r].body = fullResponse[r].text

\* C2 amended: as above, but the returned text is the response's text when it
\* has one and the fixed fallback message when it has none.
C2_NoCallReturnsTextOrFallback ==
    \A r \in Requests : Converged(r) =>
        /\ pc[r] = "done"
        /\ toolCalls[r] = rounds[r] - 1
        /\ i[r] = toolCalls[r]
        /\ (toolCalls[r] = 0 => rounds[r] = 1 /\ i[r] = 0)
        /\ result[r].status = 200
        /\ result[r].body = TextOrFallback(fullResponse[r])

C2_Witness ==
    \E r \in Requests : Converged(r) /\ rounds[r] = 1 /\ pc[r] = "done"
                        /\ result[r].body = "t1"

\* C3: one upstream call is attempted at most 5 times; when all 5 attempts fail
\* with 503 or 429 there are exactly 5 attempts and 4 backoff waits, and the
\* error raised is the error of the 5th attempt.
C3_RetryBudget ==
    \A r \in Requests :
        /\ attempts[r] <= 5
        /\ Len(errs[r]) <= 5
        /\ (Len(errs[r]) = 5 /\ \A k \in 1 .. 5 : Retryable(errs[r][k])) =>
              /\ pc[r] = "done"
              /\ attempts[r] = 5
              /\ Len(waits[r]) = 4
              /\ thrown[r] = errs[r][5]
              /\ result[r].status = errs[r][5].code

C3_Witness ==
    \E r \in Requests : /\ Len(errs[r]) = 5 /\ thrown[r] = errs[r][5]
                        /\ Is503(errs[r][1]) /\ Is429(errs[r][2]) /\ Is429(errs[r][5])
                        /\ Is503(errs[r][4])

\* C4: after 503 failures on the first k attempts (1 <= k <= 4) and a success,
\* there were exactly k+1 attempts and the n-th wait was 2000 * 2^(n-1) ms; for
\* k = 2 that is 3 attempts and waits of 2000 and 4000 ms.
C4_Backoff503 ==
    \A r \in Requests :
        (\A k \in 1 .. Len(errs[r]) : Is503(errs[r][k])) =>
            /\ \A n \in 1 .. Len(waits[r]) : waits[r][n] = 2000 * Pow2(n - 1)
            /\ (response[r] # NoResponse /\ Len(errs[r]) \in 1 .. 4) =>
                  /\ attempts[r] = Len(errs[r]) + 1
                  /\ Len(waits[r]) = Len(errs[r])
            /\ (response[r] # NoResponse /\ Len(errs[r]) = 2) =>
                  /\ attempts[r] = 3
                  /\ waits[r] = << 2000, 4000 >>

C4_Witness ==
    \E r \in Requests : /\ response[r] # NoResponse
                        /\ errs[r] = << E503, E503, E503, E503 >>
                        /\ waits[r] = << 2000, 4000, 8000, 16000 >>

\* C5: the wait after a retried 429 failure is advised seconds * 1000 + 500 ms
\* when the message advises a wait (3000 ms for "retry in 2.5s") and the current
\* backoff otherwise; a 429 retry never changes the backoff, so the current
\* backoff is always 2000 * 2^(number of 503 retries performed so far).
C5_RateLimitKeepsBackoff ==
    \A r \in Requests :
        /\ \A n \in 1 .. Len(waits[r]) : Is429(errs[r][n]) =>
              waits[r][n] =
                  IF errs[r][n].adviceSecs >= 0
                  THEN errs[r][n].adviceSecs * 1000 + errs[r][n].adviceTenths * 100 + 500
                  ELSE 2000 * Pow2(Count503(SubSeq(errs[r], 1, n - 1)))
        /\ \A n \in 1 .. Len(waits[r]) : errs[r][n] = E429Advised => waits[r][n] = 3000
        /\ currentDelay[r] = 2000 * Pow2(Count503(SubSeq(errs[r], 1, attempt[r])))

\* C6: a model-call failure that is neither 503 nor 429 is never retried: it
\* leaves the retry loop at once, with no wait and no further attempt, whatever
\* the attempt number.
C6_OtherFailuresPropagate ==
    \A r \in Requests : \A k \in 1 .. Len(errs[r]) :
        ~Retryable(errs[r][k]) =>
            /\ k = Len(errs[r])
            /\ pc[r] = "done"
            /\ thrown[r] = errs[r][k]
            /\ Len(waits[r]) = k - 1
            /\ attempts[r] = k
            /\ result[r].status \in {400, 401, 500}

C6_Witness ==
    \E r \in Requests : /\ Len(errs[r]) = 3 /\ errs[r][3] = E400 /\ thrown[r] = E400
                        /\ i[r] = 1 /\ Len(waits[r]) = 2

\* the latest response of the request asks for a tool other than googleSearch
AskedUnknownTool(r) ==
    fullResponse[r] # NoResponse /\ fullResponse[r].call \notin {NoCall, "googleSearch"}

\* C7: a request for a tool other than googleSearch aborts the run at once,
\* whatever budget remains: no tool is invoked, no further model call is made,
\* the working conversation is not extended, no assistant turn is appended to
\* the session, and the request ends with a failure response.
C7_UnknownToolAborts ==
    \A r \in Requests : AskedUnknownTool(r) =>
        /\ pc[r] = "done"
        /\ toolCalls[r] = rounds[r] - 1
        /\ i[r] = toolCalls[r]
        /\ Len(contents[r]) = Len(original[r]) + 2 * toolCalls[r]
        /\ appended[r] = << CurrentMessage(r) >>
        /\ result[r].status \notin {0, 200}

C7_Witness ==
    \E r \in Requests : AskedUnknownTool(r) /\ pc[r] = "done" /\ i[r] = 2
                        /\ result[r].status = 500

\* C8: a failure inside googleSearch never aborts the loop: it becomes a result
\* payload describing the error, which is appended as the tool-result turn, and
\* the loop goes on to the next round exactly as after a successful search.
C8_ToolFailureContained ==
    [][ \A r \in Requests : (pc[r] = "tool" /\ pc'[r] # "tool") =>
            /\ pc'[r] = "loop"
            /\ i'[r] = i[r] + 1
            /\ result'[r] = NoResult
            /\ thrown'[r] = NoError
            /\ Len(contents'[r]) = Len(contents[r]) + 2
            /\ SubSeq(contents'[r], 1, Len(contents[r])) = contents[r]
            /\ contents'[r][Len(contents[r]) + 1].part[1] = "functionCall"
            /\ Last(contents'[r]).role = "function"
            /\ (lastOutcome'[r] = "failure" =>
                   Last(contents'[r]).part = << "functionResponse", "googleSearch", SearchError >>)
      ]_vars

C8_Witness ==
    \E r \in Requests : /\ lastOutcome[r] = "failure" /\ pc[r] = "model" /\ i[r] = 1
                        /\ Last(contents[r]).part[3] = SearchError

\* C9: for every session id the stored turn sequence only grows: in every step
\* the previous sequence is a prefix of the next one, for any interleaving of
\* requests.
C9_AppendOnly ==
    [][ \A s \in Sessions : IsPrefix(Stored(s), Stored(s)') ]_vars

C9_Witness ==
    /\ sessionId[1] = "s2" /\ sessionId[2] = "s2"
    /\ pc[1] = "done" /\ pc[2] = "done"
    /\ Stored("s2") = << CurrentMessage(2), CurrentMessage(1),
                         Message("assistant", "t1"), Message("assistant", FallbackReply) >>

\* the turn the success response of a request corresponds to
AssistantTurn(r) == [role |-> "model", part |-> << "text", result[r].body >>]

IsToolPair(a, b) ==
    /\ a.role = "model" /\ a.part[1] = "functionCall"
    /\ b.role = "function" /\ b.part[1] = "functionResponse"

\* the request went through k tool rounds (1 <= k < 5) and then converged
ConvergedAfterTools(r) ==
    Converged(r) /\ pc[r] = "done" /\ toolCalls[r] \in 1 .. 4

\* C10 as claimed: after tool rounds 1..k (k < 5) and a converging round, the
\* final conversation history holds, in order, the original turns, a
\* tool-invocation turn and its tool-result turn per tool round, and the final
\* assistant turn.
C10_HistoryHoldsToolTurns ==
    \A r \in Requests : ConvergedAfterTools(r) =>
        LET expected ==
                [ n \in 1 .. Len(original[r]) + 2 * toolCalls[r] + 1 |->
                    IF n <= Len(contents[r]) THEN contents[r][n] ELSE AssistantTurn(r) ]
        IN  \/ toContents(heap[chatHistory[r]]) = expected
            \/ contents[r] = expected

\* C10 amended: the working conversation holds, in order, the original turns and
\* then a tool-invocation turn immediately followed by its tool-result turn per
\* tool round; the final assistant turn is appended to the session's stored
\* sequence, after the original turns, and the stored sequence holds no tool turn.
C10_ToolTurnsInWorkingConversation ==
    \A r \in Requests : ConvergedAfterTools(r) =>
        LET k == toolCalls[r]
            n0 == Len(original[r])
            stored == toContents(heap[chatHistory[r]])
        IN  /\ Len(contents[r]) = n0 + 2 * k
            /\ SubSeq(contents[r], 1, n0) = original[r]
            /\ \A j \in 1 .. k : IsToolPair(contents[r][n0 + 2 * j - 1], contents[r][n0 + 2 * j])
            /\ IsPrefix(original[r], stored)
            /\ \E n \in n0 + 1 .. Len(stored) : stored[n] = AssistantTurn(r)
            /\ \A n \in 1 .. Len(stored) : stored[n].part[1] = "text"
            /\ Last(appended[r]) = Message("assistant", result[r].body)

C10_Witness ==
    \E r \in Requests : /\ ConvergedAfterTools(r) /\ toolCalls[r] = 4
                        /\ Len(contents[r]) = Len(original[r]) + 8
                        /\ Last(heap[chatHistory[r]]) = Message("assistant", "t1")

\* the request has ended with a failure response after appending its user turn
FailedAfterAppend(r) ==
    pc[r] = "done" /\ result[r].status # 200 /\ appended[r] # << >>

Occurs(x, seq) == \E n \in 1 .. Len(seq) : seq[n] = x

\* C11: a failure after the user turn was appended rolls nothing back: in the
\* failing step and ever after, every turn stored for the session stays stored,
\* the request's user turn included, and the request gets exactly one response.
C11_FailureKeepsStore ==
    [][ \A r \in Requests :
          /\ (pc[r] \notin {"idle", "done"} /\ pc'[r] = "done" /\ result'[r].status # 200) =>
                /\ \A s \in Sessions : Stored(s)' = Stored(s)
                /\ Occurs(CurrentMessage(r), Stored(sessionId[r])')
                /\ result[r] = NoResult
          /\ FailedAfterAppend(r) =>
                /\ IsPrefix(Stored(sessionId[r]), Stored(sessionId[r])')
                /\ Occurs(CurrentMessage(r), Stored(sessionId[r])')
                /\ result'[r] = result[r]
                /\ pc'[r] = "done"
      ]_vars

C11_Witness ==
    /\ FailedAfterAppend(1) /\ thrown[1] = EOther /\ sessionId[1] = "s1"
    /\ pc[2] = "done" /\ result[2].status = 200 /\ sessionId[2] = "s1"
    /\ Stored("s1") = PriorHistory \o << CurrentMessage(1), CurrentMessage(2),
                                         Message("assistant", "t1") >>

\* C12: a 503 or 429 response is surfaced only when retries were exhausted: the
\* upstream call of the request's last round was attempted exactly 5 times and
\* its 5th attempt failed with that status.
C12_RetryableSurfacedWhenExhausted ==
    \A r \in Requests : result[r].status \in {503, 429} =>
        /\ pc[r] = "done"
        /\ attempts[r] = 5
        /\ Len(errs[r]) = 5
        /\ Len(waits[r]) = 4
        /\ errs[r][5].isError
        /\ errs[r][5].code = result[r].status
        /\ thrown[r] = errs[r][5]

C12_Witness ==
    \E r \in Requests : /\ result[r].status = 429 /\ Is503(errs[r][1]) /\ Is429(errs[r][5])
                        /\ rounds[r] = 1

\* a failure of the model call whose message names API_KEY and carries no 503 or 429 code
CredentialError(e) == e.isError /\ e.hasApiKey /\ ~Retryable(e)

\* C13 (as stated): a request that fails because the credential is missing or
\* invalid is never retried and is answered with status 401.
C13_CredentialFailureIs401 ==
    \A r \in Requests :
        (pc[r] = "done" /\ (~apiKey \/ CredentialError(thrown[r]))) =>
            /\ result[r].status = 401
            /\ \A k \in 1 .. Len(errs[r]) : CredentialError(errs[r][k]) => k = Len(errs[r])

\* C13 (amended): a model call that fails with a credential error (its message
\* names API_KEY and carries no 503 or 429 code) is not attempted again, and the
\* request is answered with status 401; a request that finds no API key
\* configured is answered with status 500 without any model call.
C13_CredentialErrorIs401MissingKeyIs500 ==
    \A r \in Requests :
        /\ \A k \in 1 .. Len(errs[r]) : CredentialError(errs[r][k]) =>
              /\ k = Len(errs[r])
              /\ attempts[r] = k
              /\ pc[r] = "done"
              /\ thrown[r] = errs[r][k]
              /\ result[r].status = 401
        /\ (pc[r] = "done" /\ ~apiKey) =>
              /\ result[r].status = 500
              /\ attempts[r] = 0
              /\ errs[r] = << >>

C13_Witness ==
    \E r \in Requests : /\ pc[r] = "done" /\ thrown[r] = EApiKeyInvalid
                        /\ result[r].status = 401 /\ Len(errs[r]) = 2 /\ Is503(errs[r][1])
                        /\ rounds[r] = 2

\* the turns a session held before any request arrived
InitialTurns(s) == IF s = "s1" THEN PriorHistory ELSE << >>

\* the turns request r pushed onto the history of session s
AppendedTo(r, s) == IF sessionId[r] = s THEN appended[r] ELSE << >>

RECURSIVE IsInterleaving(_, _, _)
\* seq merges a and b, keeping the order of each
IsInterleaving(seq, a, b) ==
    IF seq = << >> THEN a = << >> /\ b = << >>
    ELSE \/ a # << >> /\ Head(a) = Head(seq) /\ IsInterleaving(Tail(seq), Tail(a), b)
         \/ b # << >> /\ Head(b) = Head(seq) /\ IsInterleaving(Tail(seq), a, Tail(b))

\* both requests were served successfully on session s
BothServed(s) ==
    \A r \in Requests : pc[r] = "done" /\ result[r].status = 200 /\ sessionId[r] = s

\* the stored sequence of s is what serving the two requests one after the other leaves
SerialOutcome(s) ==
    \/ Stored(s) = InitialTurns(s) \o appended[1] \o appended[2]
    \/ Stored(s) = InitialTurns(s) \o appended[2] \o appended[1]

\* C14: two concurrent requests for the same session id interleave on the shared
\* store: the session's sequence is always the prior turns followed by a merge
\* of the two requests' own turns, each in its own order, and the merge need
\* not be either serial order (two user turns, then two assistant turns).
C14_StoreInterleaves ==
    \A s \in Sessions :
        /\ IsPrefix(InitialTurns(s), Stored(s))
        /\ IsInterleaving(SubSeq(Stored(s), Len(InitialTurns(s)) + 1, Len(Stored(s))),
                          AppendedTo(1, s), AppendedTo(2, s))

C14_Witness ==
    /\ BothServed("s1")
    /\ ~SerialOutcome("s1")
    /\ result[1].body = "t1"
    /\ Stored("s1") = PriorHistory \o << CurrentMessage(1), CurrentMessage(2),
                                         Message("assistant", FallbackReply),
                                         Message("assistant", "t1") >>

\* generateContent invocations made so far, while they are counted
CallsMade == MaxCalls - callsLeft

\* C15: with every model call, tool call and backoff wait settling, every request
\* that arrived eventually ends, with exactly one response, after at most 5
\* rounds, at most 5 tool invocations and at most 25 model-call attempts.
C15_TerminatesWithinBudgets ==
    /\ \A r \in Requests : (pc[r] # "idle") ~> (pc[r] = "done")
    /\ [](\A r \in Requests :
            /\ rounds[r] <= 5
            /\ toolCalls[r] <= 5
            /\ i[r] <= 5
            /\ CallsMade <= 25
            /\ pc[r] = "done" <=> result[r] # NoResult)
    /\ [][ \A r \in Requests : result[r] # NoResult => result'[r] = result[r] ]_vars

C15_Witness ==
    /\ pc[1] = "done" /\ result[1].status = 200
    /\ rounds[1] = 5 /\ toolCalls[1] = 5 /\ CallsMade = 25

\* C16: retry state is scoped to one upstream call: every round of the
\* tool-calling loop starts its first attempt with attempt count 0 and a backoff
\* of 2000 ms, whatever the earlier rounds and the other requests went through.
C16_RetryStateScopedToRound ==
    [][ \A r \in Requests :
          (pc[r] = "loop" /\ pc'[r] = "model") =>
              /\ attempt'[r] = 0
              /\ currentDelay'[r] = 2000
              /\ attempts'[r] = 1
              /\ waits'[r] = << >>
              /\ errs'[r] = << >>
      ]_vars

\* a later round is about to start, after a round that failed four times with 503
C16_Witness ==
    \E r \in Requests : /\ pc[r] = "loop" /\ i[r] = 2
                        /\ attempt[r] = 4 /\ currentDelay[r] = 32000

RECURSIVE CountRole(_, _)
\* how many turns of seq have the role
CountRole(seq, role) ==
    IF seq = << >> THEN 0
    ELSE (IF Head(seq).role = role THEN 1 ELSE 0) + CountRole(Tail(seq), role)

\* the requests that pushed their user turn onto session s
Arrived(s) == { r \in Requests : sessionId[r] = s /\ appended[r] # << >> }
\* the requests served successfully on session s
Served(s) == { r \in Requests : sessionId[r] = s /\ pc[r] = "done" /\ result[r].status = 200 }

\* C17: no appended turn is lost, whatever the interleaving: the user turn of
\* every request that appended it, and the assistant turn of every request that
\* completed successfully, are in the session's stored sequence, one stored turn
\* per appended turn.
C17_NoTurnLost ==
    /\ \A r \in Requests : \A k \in 1 .. Len(appended[r]) :
           Occurs(appended[r][k], Stored(sessionId[r]))
    /\ \A r \in Requests : r \in Served(sessionId[r]) =>
           Occurs(Message("assistant", result[r].body), Stored(sessionId[r]))
    /\ \A s \in Sessions :
           /\ CountRole(Stored(s), "user") =
                  CountRole(InitialTurns(s), "user") + Cardinality(Arrived(s))
           /\ CountRole(Stored(s), "assistant") =
                  CountRole(InitialTurns(s), "assistant") + Cardinality(Served(s))

\* two first requests of a new session, interleaved
C17_Witness ==
    /\ Served("s2") = Requests
    /\ Stored("s2") = << CurrentMessage(1), CurrentMessage(2),
                         Message("assistant", "t1"), Message("assistant", "t1") >>

\* C18: the turn-count guard never ends the loop: at the guard with i > 0 the
\* working conversation is longer than the recorded count, the loop is left at
\* its head only when the 5 rounds are used up, and the working conversation
\* always holds the initial turns plus two turns per completed tool round.
C18_GuardNeverBreaks ==
    /\ [](\A r \in Requests :
            /\ (pc[r] = "loop" /\ i[r] > 0) =>
                  /\ Len(contents[r]) > contentsLength[r]
                  /\ Len(contents[r]) = contentsLength[r] + 2
                  /\ ~guardBreaks(Len(contents[r]), contentsLength[r], i[r])
            /\ Len(contents[r]) = Len(original[r]) + 2 * i[r]
            /\ IsPrefix(original[r], contents[r]))
    /\ [][ \A r \in Requests : (pc[r] = "loop" /\ pc'[r] = "done") => i[r] = 5 ]_vars

C18_Witness ==
    \E r \in Requests : /\ pc[r] = "loop" /\ i[r] = 3
                        /\ Len(original[r]) = 3 /\ Len(contents[r]) = 9
                        /\ contentsLength[r] = 7

\* request r ended with a success response
Succeeded(r) == pc[r] = "done" /\ result[r].status = 200

\* C19: a request appends an assistant turn to the session store exactly when it
\* ends with a success response; it appends one, as its last store mutation, and
\* the turn's content is the message returned; a request that ends with a failure
\* response appends none.
C19_AssistantTurnIffSuccess ==
    /\ [](\A r \in Requests :
            /\ CountRole(appended[r], "assistant") = (IF Succeeded(r) THEN 1 ELSE 0)
            /\ Succeeded(r) =>
                  /\ appended[r] = << CurrentMessage(r), Message("assistant", result[r].body) >>
                  /\ Last(heap[chatHistory[r]]) = Message("assistant", result[r].body)
            /\ (pc[r] = "done" /\ ~Succeeded(r)) =>
                  appended[r] \in { << >>, << CurrentMessage(r) >> }
            /\ chatHistory[r] # NoArray =>
                  heap[chatHistory[r]] = InitialTurns(sessionId[r]) \o appended[r])
    /\ [][ \A r \in Requests :
             /\ appended'[r] # appended[r] /\ pc[r] # "idle" =>
                   /\ Succeeded(r)'
                   /\ appended'[r] = Append(appended[r], Message("assistant", result'[r].body))
             /\ pc[r] = "done" => appended'[r] = appended[r] /\ UNCHANGED storeVars
       ]_vars

C19_Witness ==
    /\ Succeeded(1) /\ toolCalls[1] = 1 /\ result[1].body = FallbackReply
    /\ fullResponse[1].text = NoText
    /\ Stored("s1") = PriorHistory \o << CurrentMessage(1), Message("assistant", FallbackReply) >>

\* C20: with no API key configured a request is answered with status 500 before
\* anything else happens: the store keeps its turns and its entries (no user
\* turn, no new session entry) and no model call or tool call is made.
C20_MissingKeyTouchesNothing ==
    ~apiKey =>
        /\ \A s \in Sessions : Stored(s) = InitialTurns(s)
        /\ chatHistoryMap["s2"] = NoArray
        /\ chatHistoryMap["s1"] = PriorArray
        /\ \A a \in Requests : heap[a] = << >>
        /\ \A r \in Requests :
              /\ pc[r] \in {"idle", "done"}
              /\ pc[r] = "done" => result[r] = [status |-> 500, body |-> "error"]
              /\ appended[r] = << >>
              /\ chatHistory[r] = NoArray
              /\ attempts[r] = 0 /\ rounds[r] = 0 /\ toolCalls[r] = 0
              /\ contents[r] = << >>

C20_Witness ==
    /\ ~apiKey
    /\ pc[1] = "done" /\ sessionId[1] = "s2" /\ result[1].status = 500
    /\ pc[2] = "done" /\ sessionId[2] = "s1" /\ result[2].status = 500
====
